---- MODULE Spec2Model ----
(***************************************************************************)
(* The timeline editing engine of ffcutter (src/ffcutter.py): the segment   *)
(* list and the pending anchor of class GUI, edited by put_anchor and       *)
(* del_anchor, painted by seekbar_paint_event (which computes the           *)
(* closest-anchor pointer del_anchor deletes), saved by save_state and      *)
(* replayed from the save file by apply_state.                              *)
(*                                                                          *)
(* Timestamps are floats in the program; only their order and equality      *)
(* matter to the editing engine, so they are modelled as the integers       *)
(* 0..MaxPos.  Python lists are sequences; Python indices are kept 0-based  *)
(* in aai/bbi (with -1 for "not found") and shifted by one on access.       *)
(***************************************************************************)
EXTENDS Integers, Sequences, FiniteSets, TLC

\* ---------------------------------------------------------------------------
\* Bounds
\* ---------------------------------------------------------------------------

\* timestamps are 0..MaxPos; the media duration (playback_len) is MaxPos
MaxPos == 3

\* most segments in the save file given on the command line
MaxSaved == 3

\* sidesi: values are 0..NavMax, sequences have at most NavLen elements,
\* min_diff is 0..NavMinDiff
NavMax == 4

NavLen == 3

NavMinDiff == 2

\* export: times are counted in thirds of a millisecond, timeline and index
\* timestamps are 0..ExpMax, the timeline has at most ExpSegs segments, the
\* index at most ExpIdxLen timestamps, a frame lasts 2..MaxFrame
ExpMax == 5

ExpSegs == 2

ExpIdxLen == 2

MaxFrame == 4

\* index: ffprobe reports at most IdxLen packets or frames, with timestamps
\* of 0..IdxMax milliseconds
IdxMax == 3

IdxLen == 2

\* `abs(v-t) <= 0.002`, in milliseconds
Threshold == 2

\* ---------------------------------------------------------------------------
\* Values
\* ---------------------------------------------------------------------------

\* Python's None for anchor, closest_anchor and playback_pos
None == 0 - 1

Pos == 0..MaxPos

playback_len == MaxPos

VARIABLES
    segments,        \* self.segments: list of (a, b)
    anchor,          \* self.anchor
    closest_anchor,  \* self.closest_anchor
    playback_pos,    \* self.playback_pos
    savefile,        \* the file self.save_filename
    loading,         \* apply_state: the put_anchor calls still to make
    state_anchor,    \* apply_state: state['anchor'] of the state being applied
    phase,           \* "start", "loading" (inside apply_state), "ready"
    last_op,         \* the operation that ran last, its inputs and the timeline it ran on
    move,            \* put_anchor's local `move` as printed; Unbound if never assigned
    raised,          \* the exception the last operation raised, "" if none
    nav,             \* one call of sidesi: its arguments and its result
    export,          \* one call of make_ffmpeg: its inputs and its segment list
    index,           \* one build of the timestamp index: its input and its result
    build,           \* the index thread, the index file and the window
    encode           \* the encode pipeline started by the Run button

\* the timeline and its editor
timeline_vars == <<segments, anchor, closest_anchor, playback_pos, savefile,
                   loading, state_anchor, phase, last_op, move, raised>>

\* the functions checked on their own
side_vars == <<nav, export, index, build, encode>>

vars == <<segments, anchor, closest_anchor, playback_pos, savefile, loading,
          state_anchor, phase, last_op, move, raised, nav, export, index,
          build, encode>>

\* ---------------------------------------------------------------------------
\* Python list helpers
\* ---------------------------------------------------------------------------

\* list.pop(i), the remaining list; a negative i counts from the end
pop_rest(ls, i) ==
    LET k == IF i < 0 THEN i + Len(ls) ELSE i
    IN  [j \in 1..(Len(ls) - 1) |-> IF j <= k THEN ls[j] ELSE ls[j + 1]]

\* list.pop(i), the popped element
pop_item(ls, i) ==
    LET k == IF i < 0 THEN i + Len(ls) ELSE i
    IN  ls[k + 1]

\* list.remove(x): drops the first element equal to x
RECURSIVE list_remove(_, _)
list_remove(ls, x) ==
    IF ls = <<>> THEN <<>>
    ELSE IF Head(ls) = x THEN Tail(ls)
    ELSE <<Head(ls)>> \o list_remove(Tail(ls), x)

\* insertion of s after every element whose start is <= s's start
RECURSIVE insert_sorted(_, _)
insert_sorted(ls, s) ==
    IF ls = <<>> THEN <<s>>
    ELSE IF Head(ls)[1] <= s[1] THEN <<Head(ls)>> \o insert_sorted(Tail(ls), s)
    ELSE <<s>> \o ls

\* no sort at all
unsorted(ls) == ls

\* sorted(self.segments, key=lambda t: t[0]): a stable sort on the start
RECURSIVE sorted_by_start(_)
sorted_by_start(ls) ==
    IF ls = <<>> THEN <<>>
    ELSE insert_sorted(sorted_by_start(SubSeq(ls, 1, Len(ls) - 1)), ls[Len(ls)])

\* ---------------------------------------------------------------------------
\* put_anchor (GUI.put_anchor)
\* ---------------------------------------------------------------------------

\* inside with the boundaries left out: `a < x < b`
inside_strict(seg, x) == seg[1] < x /\ x < seg[2]

\* `a <= x <= b` for a segment seg = (a, b)
inside(seg, x) == seg[1] <= x /\ x <= seg[2]

\* last_inside stopping at the first hit
first_inside(segs, x) ==
    LET hits == {i \in 1..Len(segs) : inside(segs[i], x)}
    IN  IF hits = {} THEN 0 - 1
        ELSE (CHOOSE i \in hits : \A j \in hits : i <= j) - 1

\* the loop over enumerate(self.segments): the index (0-based) of the last
\* segment with a <= x <= b, -1 if there is none
last_inside(segs, x) ==
    LET hits == {i \in 1..Len(segs) : inside(segs[i], x)}
    IN  IF hits = {} THEN 0 - 1
        ELSE (CHOOSE i \in hits : \A j \in hits : j <= i) - 1

\* remove_between that keeps every segment
remove_nothing(segs, aa, bb) == segs

\* the local function remove_between of put_anchor
remove_between(segs, aa, bb) ==
    SelectSeq(segs, LAMBDA s : ~(s[1] >= aa /\ s[2] <= bb))

\* `move` was never assigned: the print after the branches raises
Unbound == 0 - 2

\* the join test without the flag
join_always(aai, bbi, split_if_inside) == aai # bbi

\* `elif aai != bbi and split_if_inside`
join_test(aai, bbi, split_if_inside) == aai # bbi /\ split_if_inside

\* the branches of put_anchor on a pending anchor: the new list before the
\* final sort, and the value of `move`
put_branches(segs, anc, pos, split_if_inside) ==
    LET aa  == IF anc > pos THEN pos ELSE anc
        bb  == IF anc > pos THEN anc ELSE pos
        aai == last_inside(segs, aa)
        bbi == last_inside(segs, bb)
    IN  IF aai = -1 /\ bbi = -1 THEN
            [segments |-> Append(remove_between(segs, aa, bb), <<aa, bb>>),
             move |-> 1]
        ELSE IF aai > -1 /\ aai = bbi THEN
            LET ab   == pop_item(segs, aai)
                rest == pop_rest(segs, aai)
            IN  [segments |->
                    IF ab[1] = aa THEN Append(rest, <<bb, ab[2]>>)
                    ELSE IF ab[2] = bb THEN Append(rest, <<ab[1], aa>>)
                    ELSE rest \o <<(<<ab[1], aa>>), (<<bb, ab[2]>>)>>,
                 move |-> 2]
        ELSE IF (aai # -1 /\ bbi = -1) \/ (aai = -1 /\ bbi # -1) THEN
            LET aa2  == IF aai > -1 THEN pop_item(segs, aai)[1] ELSE aa
                bb2  == IF aai > -1 THEN bb ELSE pop_item(segs, bbi)[2]
                rest == IF aai > -1 THEN pop_rest(segs, aai) ELSE pop_rest(segs, bbi)
            IN  [segments |-> Append(remove_between(rest, aa2, bb2), <<aa2, bb2>>),
                 move |-> 3]
        ELSE IF join_test(aai, bbi, split_if_inside) THEN
            LET a     == pop_item(segs, aai)[1]
                rest1 == pop_rest(segs, aai)
                b     == pop_item(rest1, bbi - 1)[2]
                rest2 == pop_rest(rest1, bbi - 1)
            IN  [segments |-> Append(remove_between(rest2, aa, bb), <<a, b>>),
                 move |-> 4]
        ELSE
            [segments |-> segs, move |-> Unbound]

\* put_anchor that pairs a first pick with nothing and forgets it
put_anchor_forget(segs, anc, pos, split_if_inside) ==
    IF anc = None THEN
        [segments |-> sorted_by_start(segs), anchor |-> None, move |-> 0]
    ELSE
        LET r == put_branches(segs, anc, pos, split_if_inside)
        IN  [segments |-> sorted_by_start(r.segments), anchor |-> None,
             move |-> r.move]

\* put_anchor up to and including the sort of self.segments
put_anchor(segs, anc, pos, split_if_inside) ==
    IF anc = None THEN
        [segments |-> sorted_by_start(segs), anchor |-> pos, move |-> 0]
    ELSE
        LET r == put_branches(segs, anc, pos, split_if_inside)
        IN  [segments |-> sorted_by_start(r.segments), anchor |-> None,
             move |-> r.move]

\* ---------------------------------------------------------------------------
\* del_anchor (GUI.del_anchor)
\* ---------------------------------------------------------------------------

\* the loop run over a copy of the list: every segment with the target as a
\* boundary goes, the anchor comes from the last of them
del_loop_copy(segs, anc, i, target) ==
    LET hits == {k \in 1..Len(segs) : segs[k][1] = target \/ segs[k][2] = target}
        last == CHOOSE k \in hits : \A j \in hits : j <= k
    IN  IF hits = {} THEN [segments |-> segs, anchor |-> anc]
        ELSE [segments |-> SelectSeq(segs, LAMBDA s : s[1] # target /\ s[2] # target),
              anchor |-> IF segs[last][1] = target THEN segs[last][2] ELSE segs[last][1]]

\* `for a, b in self.segments:` with self.segments.remove((a, b)) in the body:
\* the list iterator keeps its index i while the list shrinks under it
RECURSIVE del_loop(_, _, _, _)
del_loop(segs, anc, i, target) ==
    IF i >= Len(segs) THEN [segments |-> segs, anchor |-> anc]
    ELSE LET ab == segs[i + 1]
         IN  IF ab[1] = target THEN
                 del_loop(list_remove(segs, ab), ab[2], i + 1, target)
             ELSE IF ab[2] = target THEN
                 del_loop(list_remove(segs, ab), ab[1], i + 1, target)
             ELSE del_loop(segs, anc, i + 1, target)

\* del_anchor that drops the pending anchor whatever the target is
del_anchor_clear(segs, anc, target) ==
    IF target = anc THEN [segments |-> segs, anchor |-> None]
    ELSE LET r == del_loop(segs, anc, 0, target)
         IN  [segments |-> r.segments,
              anchor |-> IF r.segments = segs THEN None ELSE r.anchor]

del_anchor(segs, anc, target) ==
    IF target = anc THEN [segments |-> segs, anchor |-> None]
    ELSE del_loop(segs, anc, 0, target)

\* ---------------------------------------------------------------------------
\* seekbar_paint_event: the closest-anchor pointer
\* ---------------------------------------------------------------------------

abs(x) == IF x < 0 THEN 0 - x ELSE x

\* the loop over self.segments: c is <<closest_anchor, closest_anchor_diff>>
RECURSIVE closest_loop(_, _, _)
closest_loop(segs, pos, c) ==
    IF segs = <<>> THEN c
    ELSE LET a  == Head(segs)[1]
             b  == Head(segs)[2]
             c1 == IF abs(a - pos) < c[2] THEN <<a, abs(a - pos)>> ELSE c
             c2 == IF abs(b - pos) < c1[2] THEN <<b, abs(b - pos)>> ELSE c1
         IN  closest_loop(Tail(segs), pos, c2)

paint_closest(segs, anc, pos) ==
    IF anc # None THEN anc
    ELSE closest_loop(segs, pos, <<None, playback_len>>)[1]

\* ---------------------------------------------------------------------------
\* sidesi: the neighbours of a target in an ascending sequence
\* ---------------------------------------------------------------------------

\* the test of sidesi with `min_diff < d`
far_enough_strict(d, min_diff) == d # 0 /\ min_diff < d

\* `if d != 0 and min_diff <= d`
far_enough(d, min_diff) == d # 0 /\ min_diff <= d

\* the `while True` loop to the right from index ri (0-based): the index
\* found, None if the loop runs off the end
RECURSIVE scan_right(_, _, _, _, _)
scan_right(ls, t, ri, min_diff, max_diff) ==
    IF ri = Len(ls) THEN None
    ELSE LET d == ls[ri + 1] - t
         IN  IF far_enough(d, min_diff) THEN
                 IF max_diff # None /\ d > max_diff
                 THEN scan_right(ls, t, ri + 1, min_diff, max_diff)
                 ELSE ri
             ELSE scan_right(ls, t, ri + 1, min_diff, max_diff)

\* the `while True` loop to the left from index li
RECURSIVE scan_left(_, _, _, _, _)
scan_left(ls, t, li, min_diff, max_diff) ==
    IF li = -1 THEN None
    ELSE LET d == t - ls[li + 1]
         IN  IF far_enough(d, min_diff) THEN
                 IF max_diff # None /\ d > max_diff
                 THEN scan_left(ls, t, li - 1, min_diff, max_diff)
                 ELSE li
             ELSE scan_left(ls, t, li - 1, min_diff, max_diff)

\* sidesi(target, sorted_elements, min_diff, max_diff): <<a, b>>, 0-based
\* indices or None; max_diff is None when not given
sidesi(target, ls, min_diff, max_diff) ==
    LET ge == {i \in 1..Len(ls) : ls[i] >= target}
    IN  IF ge # {} THEN
            LET i == (CHOOSE k \in ge : \A j \in ge : k <= j) - 1
            IN  <<scan_left(ls, target, i - 1, min_diff, max_diff),
                  scan_right(ls, target, i, min_diff, max_diff)>>
        ELSE IF ls = <<>> THEN <<None, None>>
        ELSE <<scan_left(ls, target, Len(ls) - 1, min_diff, max_diff), None>>

\* ---------------------------------------------------------------------------
\* Jumping between anchors (to_next_anchor)
\* ---------------------------------------------------------------------------

\* `[t for ab in self.segments for t in ab]`
RECURSIVE flatten(_)
flatten(segs) ==
    IF segs = <<>> THEN <<>>
    ELSE <<segs[1][1], segs[1][2]>> \o flatten(Tail(segs))

\* x put into the ascending list q, after the elements equal to it
RECURSIVE insert_number(_, _)
insert_number(q, x) ==
    IF q = <<>> THEN <<x>>
    ELSE IF x < Head(q) THEN <<x>> \o q
    ELSE <<Head(q)>> \o insert_number(Tail(q), x)

\* sorted(anchors)
RECURSIVE sorted(_)
sorted(q) ==
    IF q = <<>> THEN <<>>
    ELSE insert_number(sorted(SubSeq(q, 1, Len(q) - 1)), q[Len(q)])

\* to_next_anchor without the sorted() after the pending anchor is appended
to_next_anchor_unsorted(segs, anc, pos, backwards) ==
    LET anchors == IF anc # None THEN Append(flatten(segs), anc)
                   ELSE flatten(segs)
        i == sidesi(pos, anchors, 0, None)[IF backwards THEN 1 ELSE 2]
    IN  IF i # None THEN anchors[i + 1] ELSE None

\* to_next_anchor(backwards): the position it seeks to, None if it does not seek
to_next_anchor(segs, anc, pos, backwards) ==
    LET anchors == IF anc # None THEN sorted(Append(flatten(segs), anc))
                   ELSE flatten(segs)
        i == sidesi(pos, anchors, 0, None)[IF backwards THEN 1 ELSE 2]
    IN  IF i # None THEN anchors[i + 1] ELSE None

\* ---------------------------------------------------------------------------
\* Export: get_inversed_segments, adjust_segements, make_ffmpeg
\* ---------------------------------------------------------------------------

\* closest(target, elements, max_diff): the first element at the least
\* distance from target if it is nearer than max_diff (None: not given);
\* None for an empty list (the ValueError of min is caught)
closest(target, elements, max_diff) ==
    IF elements = <<>> THEN None
    ELSE LET i  == CHOOSE k \in 1..Len(elements) :
                       /\ \A j \in 1..Len(elements) :
                              abs(target - elements[k]) <= abs(target - elements[j])
                       /\ \A j \in 1..(k - 1) :
                              abs(target - elements[j]) > abs(target - elements[k])
             el == elements[i]
         IN  IF max_diff = None \/ abs(el - target) < max_diff THEN el ELSE None

\* round(x, 3) of a time x in thirds of a millisecond: the nearest whole
\* millisecond
round3(x) == ((x + 1) \div 3) * 3

\* the loop of get_inversed_segments from index i on: the local list
\* `segments` it builds
RECURSIVE inversed_loop(_, _, _, _, _, _, _)
inversed_loop(anchors, i, prev, acc, pts, frame_duration, len) ==
    IF i = Len(anchors) THEN acc
    ELSE LET t == anchors[i + 1]
         IN  IF i % 2 = 0 THEN
                 LET p == IF prev = None THEN 0 ELSE prev
                     first_frame ==
                         \/ t = 0
                         \/ pts # <<>> /\ closest(t, pts, None) = pts[1]
                 IN  inversed_loop(anchors, i + 1, p,
                                   IF first_frame THEN acc ELSE Append(acc, <<p, t>>),
                                   pts, frame_duration, len)
             ELSE
                 LET last_frame ==
                         \/ (len - t) < frame_duration
                         \/ pts # <<>> /\ closest(t, pts, None) = pts[Len(pts)]
                 IN  inversed_loop(anchors, i + 1, t,
                                   IF i = Len(anchors) - 1 /\ ~last_frame
                                   THEN Append(acc, <<t, len>>) ELSE acc,
                                   pts, frame_duration, len)

\* get_inversed_segments: it builds the local list and ends without a return
\* statement, so the value of the call is None
get_inversed_segments(segs, pts, frame_duration, len) ==
    [is_none |-> TRUE, list |-> <<>>,
     built |-> inversed_loop(flatten(segs), 0, None, <<>>, pts, frame_duration, len)]

\* `closest(x, self.pts, max_diff=frame_duration) or x`: None and 0 are falsy
closest_or(x, pts, frame_duration) ==
    LET c == closest(x, pts, frame_duration)
    IN  IF c = None \/ c = 0 THEN x ELSE c

\* the body of the loop of adjust_segements for one segment
adjust_one(seg, keep, pts, frame_duration) ==
    LET a == IF keep THEN seg[1] ELSE seg[1] + frame_duration
        b == IF keep THEN seg[2] + frame_duration ELSE seg[2]
    IN  <<round3(closest_or(a, pts, frame_duration)),
          round3(closest_or(b, pts, frame_duration))>>

\* adjust_segements(segments): enumerate(None) raises TypeError
adjust_segements(handed, keep, pts, frame_duration) ==
    IF handed.is_none THEN [raised |-> "TypeError", segments |-> <<>>]
    ELSE [raised |-> "",
          segments |-> [i \in 1..Len(handed.list) |->
                           adjust_one(handed.list[i], keep, pts, frame_duration)]]

\* make_ffmpeg up to the adjusted segment list
make_ffmpeg(segs, keep, pts, frame_duration, len) ==
    LET handed == IF keep THEN [is_none |-> FALSE, list |-> segs, built |-> segs]
                  ELSE get_inversed_segments(segs, pts, frame_duration, len)
        r == adjust_segements(handed, keep, pts, frame_duration)
    IN  [done |-> TRUE, keep |-> keep, timeline |-> segs, pts |-> pts,
         frame_duration |-> frame_duration, len |-> len,
         handed_none |-> handed.is_none, handed |-> handed.list,
         built |-> handed.built,
         raised |-> r.raised, segments |-> r.segments]

\* segments = self.segments (no copy): the same list object
list_copy_same(ls) == [object |-> "self.segments", list |-> ls]

\* segments = self.segments.copy(): a new list object holding the same pairs
list_copy(ls) == [object |-> "copy", list |-> ls]

\* make_ffmpeg as a method of the window: the command's segment list and the
\* window's fields after the call. adjust_segements assigns the adjusted
\* pairs into the list object it was handed (segments[i] = ...); in discard
\* mode it is handed the value of get_inversed_segments and raises before
\* any assignment. closest only reads self.pts.
make_ffmpeg_call(segs, anc, pts, keep, frame_duration, len) ==
    LET r == make_ffmpeg(segs, keep, pts, frame_duration, len)
        handed == IF keep THEN list_copy(segs)
                  ELSE [object |-> "local", list |-> r.handed]
    IN  [result |-> r,
         segments |-> IF handed.object = "self.segments" /\ r.raised = ""
                      THEN r.segments ELSE segs,
         anchor |-> anc,
         pts |-> pts]

\* ---------------------------------------------------------------------------
\* The timestamp index (load_ffmpeg_frames_info)
\* ---------------------------------------------------------------------------

\* sorted(set(q))
RECURSIVE sorted_set(_)
sorted_set(S) ==
    IF S = {} THEN <<>>
    ELSE LET m == CHOOSE x \in S : \A y \in S : x <= y
         IN  <<m>> \o sorted_set(S \ {m})

Elems(q) == {q[i] : i \in 1..Len(q)}

\* the reading loop of _load_timestamps_from_packets: a packet is its
\* pts_time line, its dts_time line and its flags line; None is a value that
\* is not a float or is negative
RECURSIVE read_packets(_, _, _, _, _)
read_packets(packets, pts, dts, ipts, packetn) ==
    IF packets = <<>> THEN [pts |-> pts, dts |-> dts, ipts |-> ipts]
    ELSE LET p    == Head(packets)
             n    == packetn + 1
             pts1 == IF p.pts # None THEN Append(pts, p.pts) ELSE pts
             dts1 == IF p.dts # None THEN Append(dts, p.dts) ELSE dts
             ipts1 == IF ~p.key THEN ipts
                      ELSE IF n - 1 < Len(pts1) THEN Append(ipts, pts1[n])
                      ELSE IF n - 1 < Len(dts1) THEN Append(ipts, dts1[n])
                      ELSE ipts
         IN  read_packets(Tail(packets), pts1, dts1, ipts1, n)

\* `ipts[ipts.index(v)] = t`, nothing if v is not in ipts
replace_first(ipts, v, t) ==
    IF v \notin Elems(ipts) THEN ipts
    ELSE LET k == CHOOSE i \in 1..Len(ipts) :
                      ipts[i] = v /\ \A j \in 1..(i - 1) : ipts[j] # v
         IN  [ipts EXCEPT ![k] = t]

\* `for v in rm`: v leaves q and pts, and t takes its place in ipts
RECURSIVE remove_all(_, _, _, _, _)
remove_all(rm, t, q, pts, ipts) ==
    IF rm = <<>> THEN [q |-> q, pts |-> pts, ipts |-> ipts]
    ELSE remove_all(Tail(rm), t, list_remove(q, Head(rm)),
                    list_remove(pts, Head(rm)), replace_first(ipts, Head(rm), t))

\* the loop `for t in sorted(set(pts))` over the deque q; no statement of the
\* loop puts t into q
RECURSIVE filter_incomplete(_, _, _, _)
filter_incomplete(ts, q, pts, ipts) ==
    IF ts = <<>> THEN [pts |-> pts, ipts |-> ipts]
    ELSE LET t  == Head(ts)
             rm == SelectSeq(q, LAMBDA v : abs(v - t) <= Threshold)
             r  == remove_all(rm, t, q, pts, ipts)
         IN  filter_incomplete(Tail(ts), r.q, r.pts, r.ipts)

\* _load_timestamps_from_packets; failed: ffprobe exited with an error
load_timestamps_from_packets(packets, failed) ==
    LET read == read_packets(packets, <<>>, <<>>, <<>>, 0)
        pts  == sorted_set(Elems(read.pts \o read.dts))
        ipts == sorted_set(Elems(read.ipts))
        r    == filter_incomplete(sorted_set(Elems(pts)), <<>>, pts, ipts)
    IN  IF failed \/ r.pts = <<>>
        THEN [ok |-> FALSE, raised |-> "", pts |-> <<>>, ipts |-> <<>>]
        ELSE [ok |-> TRUE, raised |-> "", pts |-> r.pts, ipts |-> r.ipts]

\* the reading loop of _load_timestamps_from_frames: a frame is its
\* best_effort_timestamp_time line and its pict_type line; `pts[-1]` raises
\* IndexError on an empty list
RECURSIVE read_frames(_, _, _)
read_frames(frames, pts, ipts) ==
    IF frames = <<>> THEN [raised |-> "", pts |-> pts, ipts |-> ipts]
    ELSE LET f    == Head(frames)
             pts1 == IF f.ts # None THEN Append(pts, f.ts) ELSE pts
         IN  IF f.pict_I /\ pts1 = <<>>
             THEN [raised |-> "IndexError", pts |-> pts1, ipts |-> ipts]
             ELSE read_frames(Tail(frames), pts1,
                              IF f.pict_I THEN Append(ipts, pts1[Len(pts1)])
                              ELSE ipts)

\* _load_timestamps_from_frames
load_timestamps_from_frames(frames, failed) ==
    LET read == read_frames(frames, <<>>, <<>>)
    IN  IF read.raised # ""
        THEN [ok |-> FALSE, raised |-> read.raised, pts |-> <<>>, ipts |-> <<>>]
        ELSE IF failed \/ read.pts = <<>>
        THEN [ok |-> FALSE, raised |-> "", pts |-> <<>>, ipts |-> <<>>]
        ELSE [ok |-> TRUE, raised |-> "", pts |-> read.pts, ipts |-> read.ipts]

\* ---------------------------------------------------------------------------
\* The index file and the index thread
\* ---------------------------------------------------------------------------

\* no index file for this video
NoIndexFile == [state |-> "none", pts |-> <<>>, ipts |-> <<>>]

\* an index file that is not the JSON of a pair
Malformed == [state |-> "malformed", pts |-> <<>>, ipts |-> <<>>]

\* the index file between open(index_file, 'w') and the end of json.dump
Partial == [state |-> "partial", pts |-> <<>>, ipts |-> <<>>]

\* the index file after json.dump([self.pts, self.ipts], f); the floats are
\* read back as they were written
Dumped(pts, ipts) == [state |-> "complete", pts |-> pts, ipts |-> ipts]

\* json.load that gives no index
load_cache_empty(file) ==
    IF file.state = "complete"
    THEN [raised |-> "", pts |-> <<>>, ipts |-> <<>>]
    ELSE [raised |-> "ValueError", pts |-> <<>>, ipts |-> <<>>]

\* `self.pts, self.ipts = json.load(f)`: a file that is not the JSON of a
\* pair raises ValueError
load_cache(file) ==
    IF file.state = "complete"
    THEN [raised |-> "", pts |-> file.pts, ipts |-> file.ipts]
    ELSE [raised |-> "ValueError", pts |-> <<>>, ipts |-> <<>>]

\* load_ffmpeg_frames_info that takes the result of frame mode whatever packet
\* mode gave
load_ffmpeg_frames_info_frames(packets, packets_failed, frames, frames_failed) ==
    LET f == load_timestamps_from_frames(frames, frames_failed)
    IN  [done |-> TRUE, mode |-> "frames", packets |-> packets, frames |-> frames,
         ok |-> f.ok, raised |-> f.raised, pts |-> f.pts, ipts |-> f.ipts]

\* load_ffmpeg_frames_info without an index file: packet mode, then frame
\* mode if packet mode gave nothing; self.pts and self.ipts stay [] if both
\* give nothing
load_ffmpeg_frames_info(packets, packets_failed, frames, frames_failed) ==
    LET p == load_timestamps_from_packets(packets, packets_failed)
        f == load_timestamps_from_frames(frames, frames_failed)
        ret == IF p.ok THEN p ELSE f
    IN  [done |-> TRUE, mode |-> IF p.ok THEN "packets" ELSE "frames",
         packets |-> packets, frames |-> IF p.ok THEN <<>> ELSE frames,
         ok |-> ret.ok, raised |-> ret.raised, pts |-> ret.pts, ipts |-> ret.ipts]

\* ---------------------------------------------------------------------------
\* The encode pipeline (run_ffmpeg, interrupt)
\* ---------------------------------------------------------------------------

\* the exit codes of an ffmpeg process: success, failure, ended by a signal
ExitCodes == {0, 1, 255}

\* the number of commands make_ffmpeg returns: the encode commands (two of
\* them for a two-pass encode) and the concat command
commands_of(encode_box, two_pass) == IF encode_box /\ two_pass THEN 3 ELSE 2

\* the window with no pipeline: GUI.__init__, lines 97 and 195; `started`,
\* `exit`, `alive`, `at_interrupt` and `last` record what happened
NoPipeline ==
    [running_ffmpeg |-> FALSE, interrupted |-> FALSE, run_enabled |-> TRUE,
     timer |-> FALSE, quit |-> FALSE, commands |-> <<>>, commands_len |-> 0,
     proc |-> 0, alive |-> {}, exit |-> <<>>, signalled |-> FALSE,
     started |-> <<>>, at_interrupt |-> None, last |-> "none",
     last_running |-> FALSE]

\* next_run: the first command left is popped and started
next_run(e) ==
    LET k == Head(e.commands)
    IN  [e EXCEPT !.commands = Tail(e.commands), !.proc = k,
                  !.alive = @ \cup {k}, !.started = Append(@, k),
                  !.signalled = FALSE]

\* stop that leaves running_ffmpeg as it is
stop_still_running(e) ==
    [e EXCEPT !.run_enabled = TRUE, !.timer = FALSE, !.interrupted = FALSE]

\* stop(exit_code)
stop(e) ==
    [e EXCEPT !.run_enabled = TRUE, !.running_ffmpeg = FALSE, !.timer = FALSE,
              !.interrupted = FALSE]

\* check without the poll of the running process
check_no_poll(e) ==
    IF e.commands = <<>> THEN stop(e) ELSE next_run(e)

\* check, the timerEvent of the poll timer; e.exit[e.proc] is self._proc.poll()
check(e) ==
    LET code == e.exit[e.proc]
    IN  IF code # None THEN
            IF code # 0 \/ e.commands = <<>> THEN stop(e) ELSE next_run(e)
        ELSE IF e.interrupted THEN [e EXCEPT !.signalled = TRUE]
        ELSE e

\* interrupt that sets the flag whether a pipeline runs or not
interrupt_always(e) ==
    [e EXCEPT !.interrupted = TRUE,
              !.at_interrupt = IF @ = None THEN Len(e.started) ELSE @]

\* interrupt, the handler of SIGINT
interrupt(e) ==
    IF e.running_ffmpeg
    THEN [e EXCEPT !.interrupted = TRUE,
                   !.at_interrupt = IF @ = None THEN Len(e.started) ELSE @]
    ELSE [e EXCEPT !.quit = TRUE]

\* run_ffmpeg after make_ffmpeg has returned n commands
run_ffmpeg(e, n) ==
    LET e1 == [e EXCEPT !.commands = [i \in 1..n |-> i], !.commands_len = n,
                        !.proc = 0, !.exit = [i \in 1..n |-> None],
                        !.started = <<>>, !.at_interrupt = None,
                        !.running_ffmpeg = TRUE]
    IN  [next_run(e1) EXCEPT !.timer = TRUE, !.run_enabled = FALSE]

\* ---------------------------------------------------------------------------
\* The save file (get_state / save_state / apply_state)
\* ---------------------------------------------------------------------------

NoFile == [exists |-> FALSE, segments |-> <<>>, anchor |-> None]

\* get_state, the part of it the timeline owns
get_state(segs, anc) == [exists |-> TRUE, segments |-> segs, anchor |-> anc]

\* the put_anchor calls apply_state makes for state['segments']
RECURSIVE replay_calls(_)
replay_calls(segs) ==
    IF segs = <<>> THEN <<>>
    ELSE <<[pos |-> Head(segs)[1], split_if_inside |-> TRUE],
           [pos |-> Head(segs)[2], split_if_inside |-> FALSE]>>
         \o replay_calls(Tail(segs))

\* the loop of apply_state run to its end on the timeline (segs, anc); an
\* exception of put_anchor ends it early
RECURSIVE apply_calls(_, _, _)
apply_calls(calls, segs, anc) ==
    IF calls = <<>> THEN [segments |-> segs, anchor |-> anc, raised |-> FALSE]
    ELSE LET r == put_anchor(segs, anc, Head(calls).pos, Head(calls).split_if_inside)
         IN  IF r.move = Unbound
             THEN [segments |-> r.segments, anchor |-> r.anchor, raised |-> TRUE]
             ELSE apply_calls(Tail(calls), r.segments, r.anchor)

\* apply_state on a fresh GUI: the timeline it leaves
apply_state(state) ==
    LET r == apply_calls(replay_calls(state.segments), <<>>, None)
    IN  [segments |-> r.segments,
         anchor |-> IF r.raised THEN r.anchor ELSE state.anchor]

\* a segment as a save file can hold it
Pairs == {<<a, b>> \in Pos \X Pos : a <= b}

RECURSIVE SeqsUpTo(_, _)
SeqsUpTo(S, n) ==
    IF n = 0 THEN {<<>>}
    ELSE LET shorter == SeqsUpTo(S, n - 1)
         IN  shorter \cup {Append(q, x) : q \in {r \in shorter : Len(r) = n - 1}, x \in S}

\* the save files the program may be started on: none, or any state file
SaveFiles ==
    {NoFile} \cup
    {get_state(s, a) : s \in SeqsUpTo(Pairs, MaxSaved), a \in Pos \cup {None}}

NoOp == [op |-> "none", pos |-> None, split_if_inside |-> TRUE, target |-> None,
         segments |-> <<>>, anchor |-> None]

\* ---------------------------------------------------------------------------
\* The state machine
\* ---------------------------------------------------------------------------

\* a function that has not been called
Idle == [done |-> FALSE]

\* GUI.__init__
Init ==
    /\ segments = <<>>
    /\ anchor = None
    /\ closest_anchor = None
    /\ playback_pos = None
    /\ savefile \in SaveFiles
    /\ loading = <<>>
    /\ state_anchor = None
    /\ phase = "start"
    /\ last_op = NoOp
    /\ move = 0
    /\ raised = ""
    /\ nav = Idle
    /\ export = Idle
    /\ index = Idle
    /\ build = Idle
    /\ encode = Idle

\* one call of put_anchor(split_if_inside) at position pos, with its print,
\* save_state and seekbar.update
PutAnchorCall(pos, split_if_inside) ==
    LET r == put_anchor(segments, anchor, pos, split_if_inside)
    IN  /\ segments' = r.segments
        /\ anchor' = r.anchor
        /\ move' = r.move
        /\ last_op' = [op |-> "put_anchor", pos |-> pos,
                       split_if_inside |-> split_if_inside, target |-> None,
                       segments |-> segments, anchor |-> anchor]
        /\ IF r.move = Unbound
           THEN /\ raised' = "UnboundLocalError"
                /\ savefile' = savefile
           ELSE /\ raised' = ""
                /\ savefile' = get_state(r.segments, r.anchor)

\* on_playback_pos for the first time-pos, and on_player_loaded up to the
\* call of apply_state
PlayerLoaded ==
    /\ phase = "start"
    /\ \E s \in Pos : playback_pos' = s
    /\ IF savefile.exists
       THEN /\ phase' = "loading"
            /\ loading' = replay_calls(savefile.segments)
            /\ state_anchor' = savefile.anchor
       ELSE /\ phase' = "ready"
            /\ UNCHANGED <<loading, state_anchor>>
    /\ UNCHANGED <<segments, anchor, closest_anchor, savefile, last_op, move, raised>>
    /\ UNCHANGED side_vars

\* apply_state: one put_anchor of the loop over state['segments']; an
\* exception leaves apply_state and is caught in on_player_loaded
ApplyStatePut ==
    /\ phase = "loading"
    /\ loading # <<>>
    /\ playback_pos' = Head(loading).pos
    /\ PutAnchorCall(Head(loading).pos, Head(loading).split_if_inside)
    /\ IF raised' # ""
       THEN /\ phase' = "ready"
            /\ loading' = <<>>
       ELSE /\ phase' = "loading"
            /\ loading' = Tail(loading)
    /\ UNCHANGED <<closest_anchor, state_anchor>>
    /\ UNCHANGED side_vars

\* apply_state after the loop
ApplyStateEnd ==
    /\ phase = "loading"
    /\ loading = <<>>
    /\ playback_pos' = 0
    /\ anchor' = state_anchor
    /\ phase' = "ready"
    /\ last_op' = [NoOp EXCEPT !.op = "apply_state", !.segments = segments,
                               !.anchor = anchor]
    /\ UNCHANGED <<segments, closest_anchor, savefile, loading, state_anchor,
                   move, raised>>
    /\ UNCHANGED side_vars

\* on_playback_pos: the player reports a new time-pos
Seek ==
    /\ phase = "ready"
    /\ \E s \in Pos : playback_pos' = s
    /\ UNCHANGED <<segments, anchor, closest_anchor, savefile, loading,
                   state_anchor, phase, last_op, move, raised>>
    /\ UNCHANGED side_vars

\* seekbar_paint_event
Paint ==
    /\ phase = "ready"
    /\ playback_pos # None
    /\ closest_anchor' = paint_closest(segments, anchor, playback_pos)
    /\ UNCHANGED <<segments, anchor, playback_pos, savefile, loading,
                   state_anchor, phase, last_op, move, raised>>
    /\ UNCHANGED side_vars

\* keyPressEvent, Key_Z
KeyZ ==
    /\ phase = "ready"
    /\ playback_pos # None
    /\ PutAnchorCall(playback_pos, TRUE)
    /\ UNCHANGED <<closest_anchor, playback_pos, loading, state_anchor, phase>>
    /\ UNCHANGED side_vars

\* keyPressEvent, Key_X
KeyX ==
    /\ phase = "ready"
    /\ playback_pos # None
    /\ LET r == del_anchor(segments, anchor, closest_anchor)
       IN  /\ segments' = r.segments
           /\ anchor' = r.anchor
           /\ savefile' = get_state(r.segments, r.anchor)
    /\ last_op' = [op |-> "del_anchor", pos |-> None, split_if_inside |-> TRUE,
                   target |-> closest_anchor,
                   segments |-> segments, anchor |-> anchor]
    /\ raised' = ""
    /\ UNCHANGED <<closest_anchor, playback_pos, loading, state_anchor, phase, move>>
    /\ UNCHANGED side_vars

\* one call of to_next_anchor from keyPressEvent; the exact seek moves the
\* playback position to its target
Jump(backwards) ==
    /\ phase = "ready"
    /\ playback_pos # None
    /\ LET to == to_next_anchor(segments, anchor, playback_pos, backwards)
       IN  /\ playback_pos' = IF to # None THEN to ELSE playback_pos
           /\ last_op' = [op |-> IF backwards THEN "to_prev_anchor"
                                 ELSE "to_next_anchor",
                          pos |-> playback_pos, split_if_inside |-> TRUE,
                          target |-> to,
                          segments |-> <<>>, anchor |-> None]
    /\ UNCHANGED <<segments, anchor, closest_anchor, savefile, loading,
                   state_anchor, phase, move, raised>>
    /\ UNCHANGED side_vars

\* keyPressEvent, alt+Right
KeyAltRight == Jump(FALSE)

\* keyPressEvent, alt+Left
KeyAltLeft == Jump(TRUE)

Next ==
    \/ PlayerLoaded
    \/ ApplyStatePut
    \/ ApplyStateEnd
    \/ Seek
    \/ Paint
    \/ KeyZ
    \/ KeyX

Spec == Init /\ [][Next]_vars

\* ---------------------------------------------------------------------------
\* Jumping over a timeline
\* ---------------------------------------------------------------------------

\* the timelines put_anchor and del_anchor keep: ascending, segments may touch
Timelines ==
    {s \in SeqsUpTo(Pairs, MaxSaved) :
        \A i \in 1..(Len(s) - 1) : s[i][2] <= s[i + 1][1]}

\* a loaded player on a timeline, with or without a pending anchor outside
\* the segments
JumpInit ==
    /\ segments \in Timelines
    /\ anchor \in {None} \cup
           {x \in Pos : \A i \in 1..Len(segments) :
                            x < segments[i][1] \/ segments[i][2] < x}
    /\ closest_anchor = None
    /\ playback_pos \in Pos
    /\ savefile = NoFile
    /\ loading = <<>>
    /\ state_anchor = None
    /\ phase = "ready"
    /\ last_op = NoOp
    /\ move = 0
    /\ raised = ""
    /\ nav = Idle
    /\ export = Idle
    /\ index = Idle
    /\ build = Idle
    /\ encode = Idle

JumpNext ==
    \/ KeyAltRight
    \/ KeyAltLeft
    \/ Seek

SpecJump == JumpInit /\ [][JumpNext]_vars

\* ---------------------------------------------------------------------------
\* Export on its own
\* ---------------------------------------------------------------------------

\* the timelines to export: ascending, segments may touch or be empty
ExportTimelines ==
    {s \in SeqsUpTo({<<a, b>> \in (0..ExpMax) \X (0..ExpMax) : a <= b}, ExpSegs) :
        \A i \in 1..(Len(s) - 1) : s[i][2] <= s[i + 1][1]}

\* the pts indexes: strictly ascending, or empty when no index was built
ExportIndexes ==
    {q \in SeqsUpTo(0..ExpMax, ExpIdxLen) :
        \A i \in 1..(Len(q) - 1) : q[i] < q[i + 1]}

ExportInit ==
    /\ Init
    /\ savefile = NoFile

\* the user asks for the ffmpeg command: make_ffmpeg runs on the timeline,
\* with the keep box checked or not
MakeFfmpeg ==
    /\ ~export.done
    /\ \E s \in ExportTimelines, keep \in BOOLEAN, pts \in ExportIndexes,
          fd \in 2..MaxFrame :
          export' = make_ffmpeg(s, keep, pts, fd, ExpMax)
    /\ UNCHANGED <<timeline_vars, nav, index, build, encode>>

ExportNext == MakeFfmpeg

SpecExport == ExportInit /\ [][ExportNext]_vars

\* ---------------------------------------------------------------------------
\* Exporting again and again from one window
\* ---------------------------------------------------------------------------

\* bounds of the repeated export: positions, segments, index entries
ReMax == 3
ReSegs == 2
ReIdxLen == 1

\* the timelines of the window: ascending, segments may touch
ReexportTimelines ==
    {s \in SeqsUpTo({<<a, b>> \in (0..ReMax) \X (0..ReMax) : a <= b}, ReSegs) :
        \A i \in 1..(Len(s) - 1) : s[i][2] <= s[i + 1][1]}

\* the pts indexes: strictly ascending, or empty when no index was built
ReexportIndexes ==
    {q \in SeqsUpTo(0..ReMax, ReIdxLen) :
        \A i \in 1..(Len(q) - 1) : q[i] < q[i + 1]}

\* a loaded player with an index and a timeline, with or without a pending
\* anchor outside the segments; the frame duration is the file's 1/fps
ReexportInit ==
    /\ segments \in ReexportTimelines
    /\ anchor \in {None} \cup
           {x \in 0..ReMax : \A i \in 1..Len(segments) :
                                  x < segments[i][1] \/ segments[i][2] < x}
    /\ closest_anchor = None
    /\ playback_pos = 0
    /\ savefile = NoFile
    /\ loading = <<>>
    /\ state_anchor = None
    /\ phase = "ready"
    /\ last_op = NoOp
    /\ move = 0
    /\ raised = ""
    /\ nav = Idle
    /\ \E fd \in 2..MaxFrame :
          export = [done |-> FALSE, frame_duration |-> fd]
    /\ \E pts \in ReexportIndexes : index = [done |-> TRUE, pts |-> pts]
    /\ build = Idle
    /\ encode = Idle

\* print_ffmpeg / run_ffmpeg call make_ffmpeg on the window's own timeline
\* and index, with the keep box checked or not; it may be asked again
MakeFfmpegAgain ==
    /\ \E keep \in BOOLEAN :
       \E c \in {make_ffmpeg_call(segments, anchor, index.pts, keep,
                                  export.frame_duration, ReMax)} :
          /\ export' = [done |-> TRUE, frame_duration |-> export.frame_duration,
                        repeated |-> export.done, keep |-> keep,
                        raised |-> c.result.raised,
                        segments |-> c.result.segments]
          /\ segments' = c.segments
          /\ anchor' = c.anchor
          /\ index' = [index EXCEPT !.pts = c.pts]
    /\ UNCHANGED <<closest_anchor, playback_pos, savefile, loading,
                   state_anchor, phase, last_op, move, raised, nav, build,
                   encode>>

ReexportNext == MakeFfmpegAgain

SpecReexport == ReexportInit /\ [][ReexportNext]_vars

\* ---------------------------------------------------------------------------
\* Index building on its own
\* ---------------------------------------------------------------------------

Stamps == {None} \cup 0..IdxMax

\* what ffprobe -show_packets may print: packets in decoding order
PacketOutputs ==
    SeqsUpTo([pts : Stamps, dts : Stamps, key : BOOLEAN], IdxLen)

\* what ffprobe -show_frames may print: frames in presentation order, so the
\* timestamps it has are strictly ascending; a frame may have none (N/A)
FrameOutputs ==
    {q \in SeqsUpTo([ts : Stamps, pict_I : BOOLEAN], IdxLen) :
        \A i \in 1..Len(q), j \in 1..Len(q) :
            (i < j /\ q[i].ts # None /\ q[j].ts # None) => q[i].ts < q[j].ts}

IndexInit ==
    /\ Init
    /\ savefile = NoFile

\* the index thread, packet mode gives an index
IndexFromPackets ==
    /\ ~index.done
    /\ \E packets \in PacketOutputs :
          /\ load_timestamps_from_packets(packets, FALSE).ok
          /\ index' = load_ffmpeg_frames_info(packets, FALSE, <<>>, FALSE)
    /\ UNCHANGED <<timeline_vars, nav, export, build, encode>>

\* the index thread, packet mode gives nothing (ffprobe fails or prints no
\* timestamp) and frame mode runs
IndexFromFrames ==
    /\ ~index.done
    /\ \E packets \in {q \in PacketOutputs :
                          \A i \in 1..Len(q) : q[i].pts = None /\ q[i].dts = None},
          packets_failed \in BOOLEAN, frames \in FrameOutputs,
          frames_failed \in BOOLEAN :
          /\ ~load_timestamps_from_packets(packets, packets_failed).ok
          /\ index' = load_ffmpeg_frames_info(packets, packets_failed,
                                              frames, frames_failed)
    /\ UNCHANGED <<timeline_vars, nav, export, build, encode>>

IndexNext ==
    \/ IndexFromPackets
    \/ IndexFromFrames

SpecIndex == IndexInit /\ [][IndexNext]_vars

\* ---------------------------------------------------------------------------
\* The index thread, the index file and the window
\* ---------------------------------------------------------------------------

\* GUI.__init__ up to line 183 on a video whose index file is `file`
NewRun(file) ==
    [pc |-> "init", file |-> file, found |-> file, threaded |-> FALSE,
     pts |-> <<>>, ipts |-> <<>>, packets_run |-> FALSE, frames_run |-> FALSE,
     packets_failed |-> FALSE, packets_empty |-> FALSE,
     frames_nothing |-> FALSE,
     reported_failed |-> FALSE, written |-> FALSE, raised |-> "",
     emitted |-> 0, shown |-> FALSE]

\* the timeline and the other functions at rest
Rest ==
    /\ segments = <<>>
    /\ anchor = None
    /\ closest_anchor = None
    /\ playback_pos = None
    /\ savefile = NoFile
    /\ loading = <<>>
    /\ state_anchor = None
    /\ phase = "start"
    /\ last_op = NoOp
    /\ move = 0
    /\ raised = ""
    /\ nav = Idle
    /\ export = Idle
    /\ index = Idle

\* the program starts on a video that has no index file yet, or one that
\* something else has damaged
BuildInit ==
    /\ Rest
    /\ build \in {NewRun(NoIndexFile), NewRun(Malformed)}
    /\ encode = Idle

\* GUI.__init__, lines 186-188: the index thread is started
StartThread ==
    /\ build.pc = "init"
    /\ build' = [build EXCEPT !.pc = "thread", !.threaded = TRUE]
    /\ UNCHANGED <<timeline_vars, nav, export, index, encode>>

\* GUI.__init__, lines 184-185: no ffprobe or --no-index; the window is shown
\* without an index
NoIndex ==
    /\ build.pc = "init"
    /\ build' = [build EXCEPT !.pc = "end", !.shown = TRUE]
    /\ UNCHANGED <<timeline_vars, nav, export, index, encode>>

\* load_ffmpeg_frames_info, the index file exists (lines 302-305, 320)
CacheHit ==
    /\ build.pc = "thread"
    /\ build.file.state # "none"
    /\ LET r == load_cache(build.file)
       IN  build' = IF r.raised # ""
                    THEN [build EXCEPT !.pc = "crashed", !.raised = r.raised]
                    ELSE [build EXCEPT !.pc = "end", !.pts = r.pts, !.ipts = r.ipts,
                                       !.emitted = @ + 1]
    /\ UNCHANGED <<timeline_vars, nav, export, index, encode>>

\* load_ffmpeg_frames_info from line 307 on, r being what the strategies gave:
\* up to open(index_file, 'w') if there is an index, to the end if there is
\* none
build_index(old, r, packets_failed) ==
    LET b == [old EXCEPT !.packets_run = TRUE,
                         !.frames_run = (r.mode = "frames"),
                         !.packets_failed = packets_failed,
                         !.packets_empty =
                             \A i \in 1..Len(r.packets) :
                                 /\ r.packets[i].pts = None
                                 /\ r.packets[i].dts = None,
                         !.frames_nothing =
                             (r.mode = "frames" /\ ~r.ok /\ r.raised = "")]
    IN  IF r.raised # ""
        THEN [b EXCEPT !.pc = "crashed", !.raised = r.raised]
        ELSE IF ~r.ok
        THEN [b EXCEPT !.pc = "end", !.reported_failed = TRUE, !.emitted = @ + 1]
        ELSE [b EXCEPT !.pc = "dump", !.pts = r.pts, !.ipts = r.ipts,
                       !.file = Partial]

\* no index file, packet mode gives an index
BuildFromPackets ==
    /\ build.pc = "thread"
    /\ build.file.state = "none"
    /\ \E packets \in PacketOutputs :
          \E p \in {load_timestamps_from_packets(packets, FALSE)},
             r \in {load_ffmpeg_frames_info(packets, FALSE, <<>>, FALSE)} :
              /\ p.ok
              /\ build' = build_index(build, r, FALSE)
    /\ UNCHANGED <<timeline_vars, nav, export, index, encode>>

\* no index file, packet mode gives nothing and frame mode runs
BuildFromFrames ==
    /\ build.pc = "thread"
    /\ build.file.state = "none"
    /\ \E packets \in {q \in PacketOutputs :
                          \A i \in 1..Len(q) : q[i].pts = None /\ q[i].dts = None},
          packets_failed \in BOOLEAN, frames \in FrameOutputs,
          frames_failed \in BOOLEAN :
          \E p \in {load_timestamps_from_packets(packets, packets_failed)},
             r \in {load_ffmpeg_frames_info(packets, packets_failed,
                                            frames, frames_failed)} :
              /\ ~p.ok
              /\ build' = build_index(build, r, packets_failed)
    /\ UNCHANGED <<timeline_vars, nav, export, index, encode>>

\* load_ffmpeg_frames_info, lines 318-320: json.dump ends, the file is closed
\* and frameindex_built is emitted
DumpDone ==
    /\ build.pc = "dump"
    /\ build' = [build EXCEPT !.pc = "end", !.file = Dumped(build.pts, build.ipts),
                              !.written = TRUE, !.emitted = @ + 1]
    /\ UNCHANGED <<timeline_vars, nav, export, index, encode>>

\* on_frameindex_built, the slot of the signal: show() and init_player()
OnFrameindexBuilt ==
    /\ build.emitted > 0
    /\ ~build.shown
    /\ build' = [build EXCEPT !.shown = TRUE]
    /\ UNCHANGED <<timeline_vars, nav, export, index, encode>>

\* the program is killed while the index thread runs
Kill ==
    /\ build.pc \in {"thread", "dump"}
    /\ build' = [build EXCEPT !.pc = "killed"]
    /\ UNCHANGED <<timeline_vars, nav, export, index, encode>>

\* a later run of the program on the same video
LaterRun ==
    /\ build.pc \in {"end", "crashed", "killed"}
    /\ build' = NewRun(build.file)
    /\ UNCHANGED <<timeline_vars, nav, export, index, encode>>

BuildNext ==
    \/ StartThread
    \/ NoIndex
    \/ CacheHit
    \/ BuildFromPackets
    \/ BuildFromFrames
    \/ DumpDone
    \/ OnFrameindexBuilt
    \/ Kill
    \/ LaterRun

SpecBuild == BuildInit /\ [][BuildNext]_vars

\* ---------------------------------------------------------------------------
\* The encode pipeline on its own
\* ---------------------------------------------------------------------------

EncodeInit ==
    /\ Rest
    /\ build = Idle
    /\ encode = NoPipeline

\* the Run button is clicked: run_ffmpeg. With the keep box unchecked
\* make_ffmpeg raises (adjust_segements on None) before anything is started
RunClicked ==
    /\ ~encode.quit
    /\ encode.run_enabled
    /\ \E keep \in BOOLEAN, encode_box \in BOOLEAN, two_pass \in BOOLEAN :
          encode' = IF keep
                    THEN [run_ffmpeg(encode, commands_of(encode_box, two_pass))
                             EXCEPT !.last = "run", !.last_running = FALSE]
                    ELSE [encode EXCEPT !.last = "run_raised",
                                        !.last_running = encode.running_ffmpeg]
    /\ UNCHANGED <<timeline_vars, nav, export, index, build>>

\* a started ffmpeg process exits
ProcExit ==
    /\ \E k \in encode.alive, code \in ExitCodes :
          encode' = [encode EXCEPT !.alive = @ \ {k}, !.exit[k] = code,
                                   !.last = "exit",
                                   !.last_running = encode.running_ffmpeg]
    /\ UNCHANGED <<timeline_vars, nav, export, index, build>>

\* the poll timer fires: check
Tick ==
    /\ ~encode.quit
    /\ encode.timer
    /\ encode' = [check(encode) EXCEPT !.last = "check",
                                       !.last_running = encode.running_ffmpeg]
    /\ UNCHANGED <<timeline_vars, nav, export, index, build>>

\* SIGINT arrives: interrupt
Interrupt ==
    /\ ~encode.quit
    /\ encode' = [interrupt(encode) EXCEPT !.last = "interrupt",
                                           !.last_running = encode.running_ffmpeg]
    /\ UNCHANGED <<timeline_vars, nav, export, index, build>>

EncodeNext ==
    \/ RunClicked
    \/ ProcExit
    \/ Tick
    \/ Interrupt

SpecEncode == EncodeInit /\ [][EncodeNext]_vars

\* the event loop keeps firing the poll timer, and every started process
\* exits
SpecEncodeFair == SpecEncode /\ WF_vars(Tick) /\ WF_vars(ProcExit)

\* ---------------------------------------------------------------------------
\* sidesi on its own
\* ---------------------------------------------------------------------------

\* the ascending sequences of at most n values of S (equal neighbours allowed)
Ascending(S, n) ==
    {q \in SeqsUpTo(S, n) : \A i \in 1..(Len(q) - 1) : q[i] <= q[i + 1]}

NavInit ==
    /\ Init
    /\ savefile = NoFile

\* the arguments of a call
NavInputs ==
    [target : 0..NavMax, seq : Ascending(0..NavMax, NavLen),
     min_diff : 0..NavMinDiff, max_diff : {None} \cup 0..NavMax]

\* a caller calls sidesi
CallSidesi ==
    /\ ~nav.done
    /\ \E in \in NavInputs :
          nav' = [done |-> TRUE, target |-> in.target, seq |-> in.seq,
                  min_diff |-> in.min_diff, max_diff |-> in.max_diff,
                  result |-> sidesi(in.target, in.seq, in.min_diff, in.max_diff)]
    /\ UNCHANGED <<timeline_vars, export, index, build, encode>>

NavNext == CallSidesi

SpecNav == NavInit /\ [][NavNext]_vars

\* ---------------------------------------------------------------------------
\* Well-formedness of a timeline
\* ---------------------------------------------------------------------------

\* ascending by start
SortedByStart(segs) ==
    \A i \in 1..Len(segs), j \in 1..Len(segs) : i < j => segs[i][1] <= segs[j][1]

\* no two segments overlap; they may touch
NonOverlapping(segs) ==
    \A i \in 1..Len(segs), j \in 1..Len(segs) : i < j => segs[i][2] <= segs[j][1]

TypeOK ==
    /\ \A i \in 1..Len(segments) : segments[i] \in Pos \X Pos
    /\ anchor \in Pos \cup {None}
    /\ closest_anchor \in Pos \cup {None}
    /\ playback_pos \in Pos \cup {None}
    /\ phase \in {"start", "loading", "ready"}

\* ---------------------------------------------------------------------------
\* Vocabulary of the properties
\* ---------------------------------------------------------------------------

\* the timeline the last operation ran on
Pre == last_op.segments

SegSet(segs) == {segs[i] : i \in 1..Len(segs)}

\* the list holds exactly the segments of S, each once
HoldsExactly(segs, S) == SegSet(segs) = S /\ Len(segs) = Cardinality(S)

\* the last operation was a put_anchor on a pending anchor
PutOnPending == last_op.op = "put_anchor" /\ last_op.anchor # None

\* the sorted pair of the anchor and the position of that put_anchor
lo == IF last_op.anchor > last_op.pos THEN last_op.pos ELSE last_op.anchor

hi == IF last_op.anchor > last_op.pos THEN last_op.anchor ELSE last_op.pos

\* x lies inside the segment S, boundaries included
Holds(S, x) == S[1] <= x /\ x <= S[2]

\* x lies inside some segment of the old timeline
InsideSome(x) == \E S \in SegSet(Pre) : Holds(S, x)

\* the old segments fully contained in [x, y]
ContainedIn(x, y) == {S \in SegSet(Pre) : x <= S[1] /\ S[2] <= y}

\* the last segment of the old list that x lies inside
LastHolding(x) ==
    Pre[CHOOSE i \in 1..Len(Pre) :
            /\ Holds(Pre[i], x)
            /\ \A j \in (i + 1)..Len(Pre) : ~Holds(Pre[j], x)]

\* some segment of the old timeline holds both lo and hi
SharedSegment == \E S \in SegSet(Pre) : S[1] <= lo /\ hi <= S[2]

\* ---------------------------------------------------------------------------
\* C1: after any sequence of put_anchor and del_anchor calls the segment list
\* is sorted ascending by start and no two segments overlap (they may touch).
\* ---------------------------------------------------------------------------
C1_SortedNonOverlapping == SortedByStart(segments) /\ NonOverlapping(segments)

\* a split put two pieces in front of a segment that was already there
C1_Witness ==
    /\ last_op.op = "put_anchor"
    /\ move = 2
    /\ Len(segments) = Len(Pre) + 1
    /\ segments[Len(segments)] \in SegSet(Pre)

\* ---------------------------------------------------------------------------
\* C2: every segment of the timeline has start < end in every reachable
\* state.
\* ---------------------------------------------------------------------------
C2_StartBeforeEnd == \A i \in 1..Len(segments) : segments[i][1] < segments[i][2]

\* ---------------------------------------------------------------------------
\* C3 as claimed: a pending anchor is never a boundary of a segment and never
\* lies inside one.
\* ---------------------------------------------------------------------------
C3_AnchorOutsideSegments ==
    anchor # None => \A i \in 1..Len(segments) : ~Holds(segments[i], anchor)

\* C3 as amended: a first pick (put_anchor with no anchor pending) makes the
\* position the pending anchor and leaves the segment list as it was, wherever
\* the position lies, on a boundary or inside a segment included.
C3_FirstPickKeepsSegments ==
    (last_op.op = "put_anchor" /\ last_op.anchor = None)
        => anchor = last_op.pos /\ segments = Pre

\* a first pick landed strictly inside a segment
C3_Witness ==
    /\ last_op.op = "put_anchor"
    /\ last_op.anchor = None
    /\ anchor = last_op.pos
    /\ \E i \in 1..Len(segments) : segments[i][1] < anchor /\ anchor < segments[i][2]

\* ---------------------------------------------------------------------------
\* C4: put_anchor on a pending anchor, neither lo nor hi inside any segment:
\* the new list is the old list minus every segment fully contained in
\* [lo, hi], plus (lo, hi), and the anchor is cleared.
\* ---------------------------------------------------------------------------
C4_Case1 ==
    (PutOnPending /\ ~InsideSome(lo) /\ ~InsideSome(hi))
        => /\ HoldsExactly(segments,
                           (SegSet(Pre) \ ContainedIn(lo, hi)) \cup {<<lo, hi>>})
           /\ anchor = None

\* a new segment swallowed a segment it fully contains
C4_Witness ==
    /\ PutOnPending
    /\ ~InsideSome(lo)
    /\ ~InsideSome(hi)
    /\ ContainedIn(lo, hi) # {}
    /\ <<lo, hi>> \in SegSet(segments)

\* ---------------------------------------------------------------------------
\* C5: put_anchor with lo and hi inside the same segment S: S is replaced by
\* (hi, S.end) if lo = S.start, by (S.start, lo) if hi = S.end, otherwise by
\* (S.start, lo) and (hi, S.end); every other segment is unchanged and the
\* anchor is cleared, whatever the join flag.
\* ---------------------------------------------------------------------------
SplitOf(S) ==
    IF lo = S[1] THEN {<<hi, S[2]>>}
    ELSE IF hi = S[2] THEN {<<S[1], lo>>}
    ELSE {<<S[1], lo>>, <<hi, S[2]>>}

C5_Case2 ==
    PutOnPending =>
        \A S \in SegSet(Pre) :
            (S[1] <= lo /\ hi <= S[2])
                => /\ HoldsExactly(segments, (SegSet(Pre) \ {S}) \cup SplitOf(S))
                   /\ anchor = None

\* ---------------------------------------------------------------------------
\* C6: put_anchor with exactly one of lo, hi inside a segment S: that endpoint
\* is replaced by S's far boundary, S and every segment fully contained in the
\* resulting range are removed and the unified segment is inserted; the other
\* segments are unchanged and the anchor is cleared.
\* ---------------------------------------------------------------------------
C6_Case3 ==
    (PutOnPending /\ (InsideSome(lo) # InsideSome(hi)))
        => /\ anchor = None
           /\ \E S \in SegSet(Pre) :
                LET nlo == IF InsideSome(lo) THEN S[1] ELSE lo
                    nhi == IF InsideSome(lo) THEN hi ELSE S[2]
                IN  /\ IF InsideSome(lo) THEN Holds(S, lo) ELSE Holds(S, hi)
                    /\ HoldsExactly(segments,
                                    (SegSet(Pre) \ ({S} \cup ContainedIn(nlo, nhi)))
                                        \cup {<<nlo, nhi>>})

\* a pick on the end boundary of a segment extended it over a second one
C6_Witness ==
    /\ PutOnPending
    /\ InsideSome(lo)
    /\ ~InsideSome(hi)
    /\ \E S \in SegSet(Pre) : S[2] = lo /\ S[1] < lo /\ <<S[1], hi>> \in SegSet(segments)
    /\ Len(segments) < Len(Pre)

\* ---------------------------------------------------------------------------
\* C7 as claimed: put_anchor with the join flag enabled, lo inside a segment
\* S1 and hi inside a different segment S2, touching segments included: S1, S2
\* and every segment between them are replaced by the single segment
\* (S1.start, S2.end); all other segments are unchanged and the anchor is
\* cleared.
\* ---------------------------------------------------------------------------
C7_Case4Join ==
    (/\ PutOnPending
     /\ last_op.split_if_inside
     /\ \E i, j \in 1..Len(Pre) :
            i < j /\ Holds(Pre[i], lo) /\ Holds(Pre[j], hi))
        => /\ anchor = None
           /\ \E i, j \in 1..Len(Pre) :
                /\ i < j
                /\ Holds(Pre[i], lo)
                /\ Holds(Pre[j], hi)
                /\ HoldsExactly(segments,
                                (SegSet(Pre) \ {Pre[k] : k \in i..j})
                                    \cup {<<Pre[i][1], Pre[j][2]>>})

\* the old segments lying between S1 and S2
Between(S1, S2) == {T \in SegSet(Pre) : S1[2] <= T[1] /\ T[2] <= S2[1]}

\* C7 as amended: put_anchor with the join flag enabled, lo and hi inside
\* segments but no single segment holding both, S1 the last segment of the
\* list holding lo and S2 the last one holding hi: S1, S2 and every segment
\* between them are replaced by the single segment (S1.start, S2.end); all
\* other segments are unchanged and the anchor is cleared.
C7_JoinLastHolding ==
    (/\ PutOnPending
     /\ last_op.split_if_inside
     /\ InsideSome(lo)
     /\ InsideSome(hi)
     /\ ~SharedSegment)
        => LET S1 == LastHolding(lo)
               S2 == LastHolding(hi)
           IN  /\ HoldsExactly(segments,
                               (SegSet(Pre) \ ({S1, S2} \cup Between(S1, S2)))
                                   \cup {<<S1[1], S2[2]>>})
               /\ anchor = None

\* a join over a segment lying between the two, from a pick on a boundary
\* that two touching segments share
C7_Witness ==
    /\ PutOnPending
    /\ last_op.split_if_inside
    /\ InsideSome(lo)
    /\ InsideSome(hi)
    /\ ~SharedSegment
    /\ Cardinality({S \in SegSet(Pre) : Holds(S, lo)}) = 2
    /\ move = 4
    /\ <<LastHolding(lo)[1], LastHolding(hi)[2]>> \in SegSet(segments)

\* ---------------------------------------------------------------------------
\* C8 as claimed: put_anchor with the join flag disabled, lo and hi inside two
\* different segments: the segment list is left exactly as it was and the
\* pending anchor is cleared.
\* ---------------------------------------------------------------------------
C8_NoJoinNoChange ==
    (/\ PutOnPending
     /\ ~last_op.split_if_inside
     /\ \E i, j \in 1..Len(Pre) :
            i # j /\ Holds(Pre[i], lo) /\ Holds(Pre[j], hi))
        => segments = Pre /\ anchor = None

\* C8 as amended: put_anchor with the join flag disabled, lo and hi inside two
\* different segments and no single segment holding both: the segment list is
\* left exactly as it was and the pending anchor is cleared.
C8_NoJoinNoShared ==
    (/\ PutOnPending
     /\ ~last_op.split_if_inside
     /\ \E i, j \in 1..Len(Pre) :
            i # j /\ Holds(Pre[i], lo) /\ Holds(Pre[j], hi)
     /\ ~SharedSegment)
        => segments = Pre /\ anchor = None

\* a second pick with the flag disabled found its ends in two segments
C8_Witness ==
    /\ PutOnPending
    /\ ~last_op.split_if_inside
    /\ \E i, j \in 1..Len(Pre) :
            i # j /\ Holds(Pre[i], lo) /\ Holds(Pre[j], hi)
    /\ ~SharedSegment
    /\ Len(Pre) >= 2
    /\ segments = Pre
    /\ anchor = None

\* ---------------------------------------------------------------------------
\* C9: put_anchor and del_anchor complete normally on every timeline, for
\* every position or target and either value of the join flag.
\* ---------------------------------------------------------------------------
C9_NoErrorRaised == raised = ""

\* ---------------------------------------------------------------------------
\* C10: del_anchor on a target that is a boundary of a segment and not the
\* pending anchor removes exactly one segment with that boundary, leaves every
\* other segment unchanged and makes the removed segment's other boundary the
\* pending anchor, also when two touching segments share the target.
\* ---------------------------------------------------------------------------
C10_DelBoundary ==
    (/\ last_op.op = "del_anchor"
     /\ last_op.target # last_op.anchor
     /\ \E S \in SegSet(Pre) : S[1] = last_op.target \/ S[2] = last_op.target)
        => \E i \in 1..Len(Pre) :
              /\ Pre[i][1] = last_op.target \/ Pre[i][2] = last_op.target
              /\ segments = [k \in 1..(Len(Pre) - 1) |->
                                IF k < i THEN Pre[k] ELSE Pre[k + 1]]
              /\ anchor = IF Pre[i][1] = last_op.target THEN Pre[i][2]
                                                        ELSE Pre[i][1]

\* the target was shared by two touching segments and one of them is left
C10_Witness ==
    /\ last_op.op = "del_anchor"
    /\ last_op.target # last_op.anchor
    /\ Cardinality({S \in SegSet(Pre) :
                       S[1] = last_op.target \/ S[2] = last_op.target}) = 2
    /\ Len(segments) = Len(Pre) - 1
    /\ anchor # last_op.target

\* ---------------------------------------------------------------------------
\* C11: del_anchor with a target that is neither the pending anchor nor a
\* boundary of a segment leaves the segment list and the anchor unchanged.
\* ---------------------------------------------------------------------------
C11_DelUnmatched ==
    (/\ last_op.op = "del_anchor"
     /\ last_op.target # last_op.anchor
     /\ \A S \in SegSet(Pre) : S[1] # last_op.target /\ S[2] # last_op.target)
        => segments = Pre /\ anchor = last_op.anchor

\* a stale pointer met a timeline with segments and a pending anchor
C11_Witness ==
    /\ last_op.op = "del_anchor"
    /\ last_op.target # None
    /\ last_op.anchor # None
    /\ last_op.target # last_op.anchor
    /\ Pre # <<>>
    /\ \A S \in SegSet(Pre) : S[1] # last_op.target /\ S[2] # last_op.target
    /\ segments = Pre
    /\ anchor = last_op.anchor

\* ---------------------------------------------------------------------------
\* C12: round trip: the saved form (segments, anchor) of every reachable
\* timeline, replayed on an empty timeline the way apply_state does, gives
\* back the same segment list and the same anchor.
\* ---------------------------------------------------------------------------
C12_RoundTrip ==
    apply_state(get_state(segments, anchor))
        = [segments |-> segments, anchor |-> anchor]
\* ---------------------------------------------------------------------------
\* C13: what sidesi returns
\* ---------------------------------------------------------------------------

\* the distance d is allowed by the max_diff of the call
WithinMax(d) == nav.max_diff = None \/ d <= nav.max_diff

\* the 0-based index of the nearest candidate of the set C of 1-based indices
\* (the lowest index to the right, the highest to the left), None if there is
\* no candidate or the nearest one is farther than max_diff
NearestRight(C) ==
    IF C = {} THEN None
    ELSE LET i == CHOOSE k \in C : \A j \in C : k <= j
         IN  IF WithinMax(nav.seq[i] - nav.target) THEN i - 1 ELSE None

NearestLeft(C) ==
    IF C = {} THEN None
    ELSE LET i == CHOOSE k \in C : \A j \in C : k >= j
         IN  IF WithinMax(nav.target - nav.seq[i]) THEN i - 1 ELSE None

\* C13 as stated: left is the nearest element strictly less than
\* target - min_diff, right the nearest element strictly greater than
\* target + min_diff, each only if no farther than max_diff; an empty
\* sequence gives (None, None)
C13_StrictlyBeyondMinDiff ==
    nav.done =>
        /\ nav.result[1] = NearestLeft({i \in 1..Len(nav.seq) :
                                nav.seq[i] < nav.target - nav.min_diff})
        /\ nav.result[2] = NearestRight({i \in 1..Len(nav.seq) :
                                nav.seq[i] > nav.target + nav.min_diff})
        /\ (nav.seq = <<>> => nav.result = <<None, None>>)

\* C13 amended: left (right) is the nearest element below (above) target whose
\* distance from target is at least min_diff and not zero, each only if no
\* farther than max_diff; an empty sequence gives (None, None)
C13_AtLeastMinDiff ==
    nav.done =>
        /\ nav.result[1] = NearestLeft({i \in 1..Len(nav.seq) :
                                /\ nav.seq[i] < nav.target
                                /\ nav.target - nav.seq[i] >= nav.min_diff})
        /\ nav.result[2] = NearestRight({i \in 1..Len(nav.seq) :
                                /\ nav.seq[i] > nav.target
                                /\ nav.seq[i] - nav.target >= nav.min_diff})
        /\ (nav.seq = <<>> => nav.result = <<None, None>>)

\* sidesi returned an element exactly min_diff > 0 to the right of the target
\* and found a left neighbour too, with max_diff given
C13_Witness ==
    /\ nav.done
    /\ nav.min_diff > 0
    /\ nav.max_diff # None
    /\ nav.result[1] # None
    /\ nav.result[2] # None
    /\ nav.seq[nav.result[2] + 1] - nav.target = nav.min_diff
\* ---------------------------------------------------------------------------
\* C14: anchor jumps are strict
\* ---------------------------------------------------------------------------

\* the anchors of the timeline: every segment boundary and the pending anchor
AnchorSet ==
    {segments[i][1] : i \in 1..Len(segments)}
        \cup {segments[i][2] : i \in 1..Len(segments)}
        \cup (IF anchor # None THEN {anchor} ELSE {})

\* C14: a forward (backward) anchor jump seeks to the least anchor strictly
\* greater (the greatest anchor strictly smaller) than the position it was
\* issued from, also when that position is itself an anchor, and does not seek
\* when there is none; so every jump that seeks moves the position strictly
\* forward (backward)
C14_StrictJump ==
    /\ last_op.op = "to_next_anchor" =>
          LET G == {x \in AnchorSet : x > last_op.pos}
          IN  IF G = {} THEN last_op.target = None
              ELSE /\ last_op.target \in G
                   /\ \A x \in G : last_op.target <= x
    /\ last_op.op = "to_prev_anchor" =>
          LET L == {x \in AnchorSet : x < last_op.pos}
          IN  IF L = {} THEN last_op.target = None
              ELSE /\ last_op.target \in L
                   /\ \A x \in L : last_op.target >= x

\* a forward jump issued from a position exactly on an anchor, on a timeline
\* with a pending anchor before its first segment, sought to the next anchor
C14_Witness ==
    /\ last_op.op = "to_next_anchor"
    /\ last_op.pos \in AnchorSet
    /\ anchor # None
    /\ Len(segments) > 0
    /\ anchor < segments[1][1]
    /\ last_op.target # None
    /\ playback_pos = last_op.target
\* ---------------------------------------------------------------------------
\* C15 - C18: the segment list of an export
\* ---------------------------------------------------------------------------

\* the gaps of the exported timeline over [0, len]: before the first segment
\* (unless it starts at 0 or at the first index timestamp), between
\* consecutive segments, after the last segment (unless it ends within one
\* frame of len or at the last index timestamp)
Gaps ==
    LET T == export.timeline
        n == Len(T)
        p == export.pts
        head == IF n = 0 \/ T[1][1] = 0 \/ (p # <<>> /\ T[1][1] = p[1])
                THEN <<>> ELSE << <<0, T[1][1]>> >>
        mid  == [i \in 1..(n - 1) |-> <<T[i][2], T[i + 1][1]>>]
        tail == IF \/ n = 0
                   \/ export.len - T[n][2] < export.frame_duration
                   \/ (p # <<>> /\ T[n][2] = p[Len(p)])
                THEN <<>> ELSE << <<T[n][2], export.len>> >>
    IN  head \o mid \o tail

\* C15: in discard mode the list handed to adjust_segements is the complement
\* of the timeline over [0, len]
C15_HandedComplement ==
    (export.done /\ ~export.keep) =>
        ~export.handed_none /\ export.handed = Gaps

\* C16: building the export segment list raises no error, in keep and in
\* discard mode, with and without an index
C16_ExportNeverFails ==
    export.done => export.raised = ""

\* the index timestamps x may be snapped to: the nearest ones, if nearer than
\* one frame; x itself if there is none
SnapSet(x) ==
    LET P == {export.pts[i] : i \in 1..Len(export.pts)}
        N == {t \in P : /\ abs(t - x) < export.frame_duration
                        /\ \A u \in P : abs(t - x) <= abs(u - x)}
    IN  IF N = {} THEN {x} ELSE N

\* C17: every adjusted segment is the timeline's segment with one boundary
\* moved forward by a frame (b in keep mode, a in discard mode), each boundary
\* then replaced by the nearest index timestamp within a frame of it if there
\* is one, and rounded to the millisecond
C17_NudgeThenSnap ==
    (export.done /\ export.raised = "") =>
        /\ Len(export.segments) = Len(export.handed)
        /\ \A i \in 1..Len(export.segments) :
              LET a == IF export.keep THEN export.handed[i][1]
                       ELSE export.handed[i][1] + export.frame_duration
                  b == IF export.keep THEN export.handed[i][2] + export.frame_duration
                       ELSE export.handed[i][2]
              IN  /\ export.segments[i][1] \in {round3(t) : t \in SnapSet(a)}
                  /\ export.segments[i][2] \in {round3(t) : t \in SnapSet(b)}

\* C18: the adjusted list is ascending and non-overlapping, and every segment
\* of it starts before it ends
C18_AdjustedWellFormed ==
    (export.done /\ export.raised = "") =>
        /\ \A i \in 1..Len(export.segments) :
              export.segments[i][1] < export.segments[i][2]
        /\ \A i \in 1..(Len(export.segments) - 1) :
              export.segments[i][2] <= export.segments[i + 1][1]
\* ---------------------------------------------------------------------------
\* C19, C20: the timestamp index
\* ---------------------------------------------------------------------------

\* C19: the pts index built in packet mode has no two consecutive timestamps
\* within 0.002 s of each other
C19_NoIncompletePackets ==
    (index.done /\ index.mode = "packets" /\ index.ok) =>
        \A i \in 1..(Len(index.pts) - 1) :
            index.pts[i + 1] - index.pts[i] > Threshold

StrictlyAscending(q) == \A i \in 1..(Len(q) - 1) : q[i] < q[i + 1]

\* C20: the index either strategy gives has strictly ascending pts, strictly
\* ascending keyframes, and every keyframe among the pts
C20_IndexWellFormed ==
    (index.done /\ index.ok) =>
        /\ StrictlyAscending(index.pts)
        /\ StrictlyAscending(index.ipts)
        /\ Elems(index.ipts) \subseteq Elems(index.pts)
\* ---------------------------------------------------------------------------
\* C26: the save file follows the timeline
\* ---------------------------------------------------------------------------

\* C26: after every completed put_anchor or del_anchor, and after apply_state
\* has loaded the saved state, the save file records the segments and the
\* anchor that are in memory
C26_SaveFileCurrent ==
    (/\ phase = "ready"
     /\ last_op.op \in {"put_anchor", "del_anchor", "apply_state"}
     /\ raised = "")
        => savefile = get_state(segments, anchor)
\* ---------------------------------------------------------------------------
\* C21 - C25: the index thread and the index file
\* ---------------------------------------------------------------------------

\* the index thread has come to its end, by return or by an exception
ThreadOver == build.threaded /\ build.pc \in {"end", "crashed"}

\* the index file the thread found is there but is not a readable index
FoundUnreadable == build.found.state \in {"malformed", "partial"}

\* C21: the index thread emits frameindex_built exactly once on every path,
\* an unreadable index file included, and the window is shown only after it
C21_SignalledOnce ==
    /\ build.emitted <= 1
    /\ ThreadOver => build.emitted = 1
    /\ (build.threaded /\ build.shown) => build.emitted = 1

\* C22: an unreadable index file is treated as a miss: the strategies run and
\* no error leaves the build
C22_UnreadableIsMiss ==
    (ThreadOver /\ FoundUnreadable) =>
        build.packets_run /\ build.raised = ""

\* C23: the index file is written only after a strategy gave a non-empty
\* index, and a build that fails or is abandoned leaves no index file,
\* complete or partial, for a later run
C23_NoPartialCache ==
    /\ build.written => (build.pts # <<>> /\ ~build.reported_failed)
    /\ build.reported_failed => build.file = build.found
    /\ build.pc = "killed" => build.file.state \in {"none", build.found.state}

\* C24: on a miss packet mode always runs; frame mode runs if and only if
\* packet mode gave nothing (ffprobe failed or printed no timestamp); the
\* build is reported failed, with the index left empty, only if both gave
\* nothing, and always then
C24_FallbackOrder ==
    (build.threaded /\ build.found.state = "none"
        /\ build.pc \in {"dump", "end", "crashed"}) =>
        /\ build.packets_run
        /\ build.frames_run <=> (build.packets_failed \/ build.packets_empty)
        /\ build.reported_failed =>
              /\ build.frames_run
              /\ build.frames_nothing
              /\ build.pts = <<>> /\ build.ipts = <<>>
        /\ (build.frames_run /\ build.frames_nothing) => build.reported_failed

\* frame mode ran after packet mode failed, and gave the index
C24_Witness ==
    /\ build.threaded
    /\ build.found.state = "none"
    /\ build.pc = "end"
    /\ build.frames_run
    /\ build.packets_failed
    /\ build.written
    /\ build.pts # <<>>

\* C25: when the index file exists no strategy runs and the file is not
\* rewritten; the index is the pair the file holds
C25_CacheFirst ==
    (ThreadOver /\ build.found.state # "none") =>
        /\ ~build.packets_run /\ ~build.frames_run
        /\ ~build.written
        /\ build.file = build.found
        /\ build.found.state = "complete" =>
              build.pts = build.found.pts /\ build.ipts = build.found.ipts

\* a later run found the index file an earlier run wrote, with keyframes
C25_Witness ==
    /\ ThreadOver
    /\ build.found.state = "complete"
    /\ build.found.ipts # <<>>
    /\ build.emitted = 1
    /\ build.shown
\* ---------------------------------------------------------------------------
\* C27 - C30: the encode pipeline
\* ---------------------------------------------------------------------------

\* C27: once an interrupt has been requested while the pipeline runs, no
\* further command of the pipeline is started
C27_NoStartAfterInterrupt ==
    encode.at_interrupt # None => Len(encode.started) = encode.at_interrupt

\* C28: the commands are started in list order, at most one process is alive,
\* a command is started only after every earlier one has exited with code 0,
\* and the Run button cannot start a second pipeline while one runs
C28_OneAtATime ==
    /\ \A i \in 1..Len(encode.started) : encode.started[i] = i
    /\ Cardinality(encode.alive) <= 1
    /\ \A i \in 1..(Len(encode.started) - 1) : encode.exit[i] = 0
    /\ encode.running_ffmpeg => ~encode.run_enabled

\* a three-command pipeline has started its last command
C28_Witness ==
    /\ encode.running_ffmpeg
    /\ encode.commands_len = 3
    /\ encode.started = <<1, 2, 3>>
    /\ encode.alive = {3}

\* C29: every started pipeline eventually stops: running_ffmpeg is false, the
\* poll timer is stopped and the Run button is enabled
C29_PipelineStops ==
    encode.running_ffmpeg ~>
        (~encode.running_ffmpeg /\ ~encode.timer /\ encode.run_enabled)

\* a pipeline has stopped after an interrupt was requested during it
C29_Witness ==
    /\ ~encode.running_ffmpeg
    /\ ~encode.timer
    /\ encode.run_enabled
    /\ encode.started # <<>>
    /\ encode.at_interrupt # None
    /\ encode.last = "check"

\* C30: the interrupted flag is true only while a pipeline runs; an interrupt
\* with no pipeline running quits and does not set the flag, an interrupt
\* during a pipeline sets the flag and does not quit
C30_FlagOnlyWhileRunning ==
    /\ encode.interrupted => encode.running_ffmpeg
    /\ (encode.last = "interrupt" /\ ~encode.last_running) =>
          (encode.quit /\ ~encode.interrupted)
    /\ (encode.last = "interrupt" /\ encode.last_running) =>
          (encode.interrupted /\ ~encode.quit)

\* the flag was set during a pipeline, the pipeline has stopped and a later
\* interrupt has quit the application
C30_Witness ==
    /\ encode.last = "interrupt"
    /\ ~encode.last_running
    /\ encode.quit
    /\ encode.at_interrupt # None
    /\ ~encode.interrupted

\* C32: whenever an anchor is pending, a del_anchor request clears that
\* anchor and leaves every segment unchanged, whatever the order of
\* put_anchor, del_anchor, seek and seekbar repaint events before it.
C32_DelClearsPending ==
    (last_op.op = "del_anchor" /\ last_op.anchor # None)
        => anchor = None /\ segments = Pre

\* C31: producing the export commands (make_ffmpeg, keep or discard mode,
\* any number of times) leaves the timeline's segments, the anchor and the
\* timestamp index unchanged, and a repeated export in the same mode yields
\* the same adjusted segment list (the same outcome) as the one before.
C31_ExportLeavesState ==
    [][MakeFfmpegAgain =>
          /\ segments' = segments
          /\ anchor' = anchor
          /\ index' = index
          /\ (export.done /\ export'.keep = export.keep)
                 => /\ export'.segments = export.segments
                    /\ export'.raised = export.raised]_vars

\* a repeated keep-mode export whose adjusted list differs from the timeline
C31_Witness ==
    /\ export.done
    /\ export.repeated
    /\ export.keep
    /\ export.raised = ""
    /\ export.segments # <<>>
    /\ export.segments # segments

====
